---- MODULE Spec2Model ----
(***************************************************************************)
(* Model of the Context7 MCP proxy (src/context7_proxy.py) and of the      *)
(* stdin/stdout processor scripts used by the integration tests.           *)
(*                                                                         *)
(* Texts (request bodies, upstream bodies, header values that are          *)
(* searched) are sequences of atomic tokens; a Python value is a record    *)
(* [type, val] whose val is the sequence of the members of a dict (pairs   *)
(* of strings) and empty for every other value of the universe.            *)
(***************************************************************************)
EXTENDS Integers, Sequences, FiniteSets, TLC

VARIABLES
    pc,             \* per request: position of proxy_mcp_request
    inbound,        \* per request: the inbound POST / (wire headers, body text)
    request_url,    \* per request: local request_url (line 56, 62)
    upstream_calls, \* per request: the http_client.post calls the handler made
    upstream_reply, \* per request: what the upstream call resolved to
    responses,      \* per request: the responses sent to the caller
    http_client,    \* the process-wide httpx.AsyncClient (lines 29-35)
    proc            \* the processor script run (script, stdin, position, stdout, exit)

vars ==
    <<pc, inbound, request_url, upstream_calls, upstream_reply, responses,
      http_client, proc>>

proxyVars ==
    <<pc, inbound, request_url, upstream_calls, upstream_reply, responses,
      http_client>>

----------------------------------------------------------------------------
(* Bounds of the model *)

\* number of concurrently handled requests in SpecConc
NumConcurrent == 2

\* longest inbound header list in Spec
MaxHeaders == 2

----------------------------------------------------------------------------
(* Python values *)

PyDict(members) == [type |-> "dict", val |-> members]

PyList == [type |-> "list", val |-> <<>>]

PyNone == [type |-> "NoneType", val |-> <<>>]

\* bool(v): an empty dict, an empty list and None are false
Truthy(v) ==
    CASE v.type = "dict" -> Len(v.val) > 0
      [] v.type = "list" -> FALSE
      [] v.type = "NoneType" -> FALSE
      [] OTHER -> TRUE

\* outcome of an expression that may raise
Ok(v) == [ok |-> TRUE, value |-> v, exc |-> "none"]

Raised(e) == [ok |-> FALSE, value |-> PyNone, exc |-> e]

----------------------------------------------------------------------------
(* Text tokens *)

T_ok == "{\"result\":\"ok\"}"

T_later == "{\"result\":\"later\"}"

T_empty == "{}"

T_list == "[]"

T_null == "null"

T_true == "{\"ok\":true}"

T_py == "{'result':'ok'}"

T_bad == "Bad Request"

T_req == "{\"method\":\"tools/list\"}"

T_init == "{\"method\":\"initialize\"}"

NL == "\n"

DATA == "data: "

Whitespace == {NL, " "}

\* json.loads(text): one JSON document, surrounding whitespace allowed
JsonDocument(tok) ==
    CASE tok = T_ok -> Ok(PyDict(<< <<"result", "ok">> >>))
      [] tok = T_later -> Ok(PyDict(<< <<"result", "later">> >>))
      [] tok = T_empty -> Ok(PyDict(<< >>))
      [] tok = T_list -> Ok(PyList)
      [] tok = T_null -> Ok(PyNone)
      [] tok = T_true -> Ok(PyDict(<< <<"ok", "true">> >>))
      [] tok = T_req -> Ok(PyDict(<< <<"method", "tools/list">> >>))
      [] tok = T_init -> Ok(PyDict(<< <<"method", "initialize">> >>))
      [] OTHER -> Raised("JSONDecodeError")

RECURSIVE LStrip(_)
LStrip(text) ==
    IF text # <<>> /\ Head(text) \in Whitespace THEN LStrip(Tail(text)) ELSE text

RECURSIVE RStrip(_)
RStrip(text) ==
    IF text # <<>> /\ text[Len(text)] \in Whitespace
    THEN RStrip(SubSeq(text, 1, Len(text) - 1))
    ELSE text

\* str.strip()
Strip(text) == RStrip(LStrip(text))

JsonLoads(text) ==
    LET t == Strip(text)
    IN IF Len(t) = 1 THEN JsonDocument(t[1]) ELSE Raised("JSONDecodeError")

\* eval(text): the text as a Python expression; true, false and null are
\* unbound names, a single-quoted dict is a dict
PyExpression(tok) ==
    CASE tok = T_ok -> Ok(PyDict(<< <<"result", "ok">> >>))
      [] tok = T_later -> Ok(PyDict(<< <<"result", "later">> >>))
      [] tok = T_empty -> Ok(PyDict(<< >>))
      [] tok = T_list -> Ok(PyList)
      [] tok = T_py -> Ok(PyDict(<< <<"result", "ok">> >>))
      [] tok = T_req -> Ok(PyDict(<< <<"method", "tools/list">> >>))
      [] tok = T_init -> Ok(PyDict(<< <<"method", "initialize">> >>))
      [] tok \in {T_null, T_true} -> Raised("NameError")
      [] OTHER -> Raised("SyntaxError")

PyEval(text) ==
    LET t == Strip(text)
    IN IF Len(t) = 1 THEN PyExpression(t[1]) ELSE Raised("SyntaxError")

\* str.split('\n'): the lines of a text, at least one
RECURSIVE SplitFrom(_, _, _)
SplitFrom(text, i, cur) ==
    IF i > Len(text) THEN <<cur>>
    ELSE IF text[i] = NL THEN <<cur>> \o SplitFrom(text, i + 1, <<>>)
    ELSE SplitFrom(text, i + 1, Append(cur, text[i]))

Split(text) == SplitFrom(text, 1, <<>>)

\* line.startswith("data: ")
StartsWithData(line) == line # <<>> /\ Head(line) = DATA

\* line[6:] of a line that starts with the six characters of "data: "
AfterMarker(line) == Tail(line)

----------------------------------------------------------------------------
(* Header maps *)

\* the missing value None of dict.get / Headers.get
None == "<None>"

\* bool(s) of an optional string: None and "" are false
StrTruthy(s) == s # None /\ s # ""

\* str.lower() on the header names of the universe
Lower(name) ==
    CASE name = "MCP-Session-Id" -> "mcp-session-id"
      [] name = "Mcp-Session-Id" -> "mcp-session-id"
      [] name = "Centian-Url" -> "centian-url"
      [] name = "Cookie" -> "cookie"
      [] name = "Authorization" -> "authorization"
      [] OTHER -> name

\* request.headers: the header list of the ASGI scope, names in lower case
RequestHeaders(wire) == [i \in DOMAIN wire |-> <<Lower(wire[i][1]), wire[i][2]>>]

RECURSIVE HeadersGetFrom(_, _, _, _)
HeadersGetFrom(hs, i, key, default) ==
    IF i > Len(hs) THEN default
    ELSE IF Lower(hs[i][1]) = Lower(key) THEN hs[i][2]
    ELSE HeadersGetFrom(hs, i + 1, key, default)

\* Headers.get(key, default): the first field of that name, any spelling
HeadersGet(hs, key, default) == HeadersGetFrom(hs, 1, key, default)

\* key in headers
HeadersContains(hs, key) == \E i \in DOMAIN hs : Lower(hs[i][1]) = Lower(key)

\* del headers[key]: drops every field of that name
HeadersDel(hs, key) == SelectSeq(hs, LAMBDA p : Lower(p[1]) # Lower(key))

\* d[k] = v on a dict held as a function
SetItem(d, k, v) == [x \in DOMAIN d \cup {k} |-> IF x = k THEN v ELSE d[x]]

EmptyDict == [x \in {} |-> ""]

\* dict | dict : the right operand wins
Merge(d, e) == [x \in DOMAIN d \cup DOMAIN e |-> IF x \in DOMAIN e THEN e[x] ELSE d[x]]

----------------------------------------------------------------------------
(* Configuration of the proxy *)

CONTEXT7_BASE_URL == "https://mcp.context7.com/mcp"

USER_AGENT ==
    "Mozilla/5.0 (Macintosh; Intel Mac OS X 10_15_7) AppleWebKit/537.36 (KHTML, like Gecko) Chrome/139.0.0.0 Safari/537.36"

\* the process-wide client: its timeout and the headers every call starts from
HttpClient ==
    [timeout |-> 30,
     headers |-> [x \in {"Content-Type", "User-Agent"} |->
                    IF x = "Content-Type" THEN "application/json" ELSE USER_AGENT]]

----------------------------------------------------------------------------
(* proxy_mcp_request, up to the upstream call *)

\* a decoder that takes an undecodable body for an empty mapping
RequestJsonLenient(body) ==
    IF JsonLoads(body).ok THEN JsonLoads(body) ELSE Ok(PyDict(<< >>))

\* line 59: request.json(), which raises on a body that is no JSON document
RequestJson(body) == JsonLoads(body)

\* line 62: the override header, else the default endpoint
TargetURL(headers) == HeadersGet(headers, "centian-url", CONTEXT7_BASE_URL)

\* lines 63-66: the mutable copy without the override header
StripOverride(headers) ==
    IF HeadersContains(headers, "centian-url")
    THEN HeadersDel(headers, "centian-url")
    ELSE headers

BaseProxyHeaders ==
    [x \in {"Content-Type", "Accept", "User-Agent"} |->
        CASE x = "Content-Type" -> "application/json"
          [] x = "Accept" -> "application/json, text/event-stream"
          [] OTHER -> USER_AGENT]

RECURSIVE CopyAll(_, _, _)
CopyAll(d, hs, i) ==
    IF i > Len(hs) THEN d ELSE CopyAll(SetItem(d, hs[i][1], hs[i][2]), hs, i + 1)

\* what lines 68-77 would build with the inbound headers spread into the dict
ProxyHeadersSpread(request_headers) ==
    LET s1 == HeadersGet(request_headers, "MCP-Session-Id", None)
        h0 == CopyAll(BaseProxyHeaders, request_headers, 1)
        h1 == IF StrTruthy(s1) THEN SetItem(h0, "mcp-session-id", s1) ELSE h0
    IN h1

\* lines 68-77: the allow-list, plus the session id found under either key
ProxyHeaders(request_headers) ==
    LET s1 == HeadersGet(request_headers, "MCP-Session-Id", None)
        h1 == IF StrTruthy(s1)
              THEN SetItem(BaseProxyHeaders, "mcp-session-id", s1)
              ELSE BaseProxyHeaders
        s2 == HeadersGet(request_headers, "mcp-session-id", None)
        h2 == IF StrTruthy(s2) THEN SetItem(h1, "mcp-session-id", s2) ELSE h1
    IN h2

\* what a client whose headers were updated in place would hold after a call
ClientKeepsCallHeaders(client, headers) ==
    [client EXCEPT !.headers = Merge(client.headers, headers)]

\* lines 83-87: headers go with the call; the shared client is left as it is
ClientAfterPost(client, headers) == client

\* lines 83-87: the call http_client.post sends
PostCall(client, url, data, headers) ==
    [url |-> url, json |-> data, headers |-> Merge(client.headers, headers)]

----------------------------------------------------------------------------
(* Responses *)

\* JSONResponse(content, status_code, headers)
JSONResponse(content, status, headers) ==
    [status |-> status, content |-> content, headers |-> headers,
     raw |-> <<>>, fault |-> "none"]

\* line 135: the fallback envelope, raw text under "raw"
ParseFailure(response_text) ==
    [status |-> 500,
     content |-> PyDict(<< <<"error", "Failed to parse streaming response">> >>),
     headers |-> EmptyDict, raw |-> response_text, fault |-> "none"]

\* raise HTTPException(500, detail = prefix + str(e)), as the framework renders it
HTTPException(prefix, e) ==
    [status |-> 500, content |-> PyDict(<< <<"detail", prefix>> >>),
     headers |-> EmptyDict, raw |-> <<>>, fault |-> e]

\* lines 153-156
ForwardingError(e) == HTTPException("Error forwarding request", e)

\* lines 157-163
InternalError(e) == HTTPException("Internal server error", e)

----------------------------------------------------------------------------
(* proxy_mcp_request, from the upstream reply on *)

\* Response.is_success, which raise_for_status tests
IsSuccess(status) == status >= 200 /\ status <= 299

\* "text/event-stream" in content_type
IsEventStream(content_type) ==
    \E i \in DOMAIN content_type : content_type[i] = "text/event-stream"

\* content_typ == "application/json"
IsExactlyJson(content_type) == content_type = <<"application/json">>

\* a loop that gives up at the first data line that does not decode
RECURSIVE ScanLinesFirstOnly(_, _)
ScanLinesFirstOnly(lines, i) ==
    IF i > Len(lines) THEN PyNone
    ELSE IF StartsWithData(lines[i])
         THEN LET json_str == AfterMarker(lines[i])
              IN IF PyEval(json_str).ok THEN PyEval(json_str).value
                 ELSE IF JsonLoads(json_str).ok THEN JsonLoads(json_str).value
                 ELSE PyNone
         ELSE ScanLinesFirstOnly(lines, i + 1)

\* lines 104-117: json_data after the loop over lines i.. ; eval first, then
\* json.loads, and on to the next line when both raise
RECURSIVE ScanLines(_, _)
ScanLines(lines, i) ==
    IF i > Len(lines) THEN PyNone
    ELSE IF StartsWithData(lines[i])
         THEN LET json_str == AfterMarker(lines[i])
              IN IF PyEval(json_str).ok THEN PyEval(json_str).value
                 ELSE IF JsonLoads(json_str).ok THEN JsonLoads(json_str).value
                 ELSE ScanLines(lines, i + 1)
         ELSE ScanLines(lines, i + 1)

\* lines 120-124: the session id of the upstream response, under one key
SessionHeaders(headers) ==
    LET s1 == HeadersGet(headers, "mcp-session-id", None)
        h1 == IF StrTruthy(s1) THEN SetItem(EmptyDict, "mcp-session-id", s1)
              ELSE EmptyDict
        s2 == HeadersGet(headers, "Mcp-Session-Id", None)
        h2 == IF StrTruthy(s2) THEN SetItem(h1, "mcp-session-id", s2) ELSE h1
    IN h2

\* lines 95-135: the event-stream branch
StreamResponse(rep) ==
    LET lines == Split(Strip(rep.text))
        json_data == ScanLines(lines, 1)
        response_headers == SessionHeaders(rep.headers)
    IN IF Truthy(json_data)
       THEN JSONResponse(json_data, rep.status, response_headers)
       ELSE ParseFailure(rep.text)

\* lines 136-151: the other branch; a body that does not decode leaves {}
PlainResponse(rep) ==
    LET decoded == JsonLoads(rep.text)
        response_data == IF IsExactlyJson(rep.content_type) /\ decoded.ok
                         THEN decoded.value
                         ELSE PyDict(<< >>)
    IN JSONResponse(response_data, rep.status, EmptyDict)

\* lines 88-163: what the handler returns for an upstream response
ReplyResponse(rep) ==
    IF rep.status = 400 /\ ~JsonLoads(rep.text).ok
    THEN InternalError("JSONDecodeError")
    ELSE IF ~IsSuccess(rep.status) THEN ForwardingError("HTTPStatusError")
    ELSE IF IsEventStream(rep.content_type) THEN StreamResponse(rep)
    ELSE PlainResponse(rep)

----------------------------------------------------------------------------
(* The requests and replies of the environment *)

NoRequest == [headers |-> <<>>, body |-> <<>>]

NoReply ==
    [kind |-> "none", status |-> 0, content_type |-> <<>>, headers |-> <<>>,
     text |-> <<>>]

NetworkFailure(e) ==
    [kind |-> e, status |-> 0, content_type |-> <<>>, headers |-> <<>>,
     text |-> <<>>]

UpstreamResponse(status, content_type, headers, text) ==
    [kind |-> "response", status |-> status, content_type |-> content_type,
     headers |-> headers, text |-> text]

WireFields ==
    { <<"centian-url", "http://alt.example/mcp">>,
      <<"MCP-Session-Id", "abc123">>,
      <<"mcp-session-id", "xyz789">>,
      <<"mcp-session-id", "">>,
      <<"authorization", "Bearer t">>,
      <<"Cookie", "c=1">> }

\* header lists in which no field name occurs twice, whatever its spelling
HeaderLists ==
    { hs \in UNION { [1..n -> WireFields] : n \in 0..MaxHeaders } :
        \A i, j \in DOMAIN hs : i # j => Lower(hs[i][1]) # Lower(hs[j][1]) }

RequestBodies == { <<T_req>>, <<T_list>>, <<T_bad>>, << >> }

Inbounds == [headers : HeaderLists, body : RequestBodies]

Statuses == {200, 202, 302, 400, 503}

ContentTypes ==
    { << >>, <<"application/json">>, <<"application/json", "; charset=utf-8">>,
      <<"text/event-stream">>, <<"text/event-stream", "; charset=utf-8">>,
      <<"text/plain">> }

ReplyHeaders ==
    { << >>, << <<"mcp-session-id", "up-1">> >>, << <<"Mcp-Session-Id", "up-2">> >> }

ReplyTexts ==
    { <<T_ok>>, <<T_empty>>, <<T_bad>>, << >>,
      <<"event: message", NL, DATA, T_ok, NL, NL>>,
      <<DATA, T_empty, NL, NL>>,
      <<DATA, T_list>>,
      <<DATA, T_null>>,
      <<DATA, T_true, NL>>,
      <<DATA, T_py, NL>>,
      <<DATA, T_bad, NL>>,
      <<DATA, T_bad, NL, DATA, T_ok, NL>>,
      <<DATA, T_ok, NL, DATA, T_later, NL>>,
      <<"event: ping", NL, NL>> }

Replies ==
    { UpstreamResponse(s, c, h, t) :
        s \in Statuses, c \in ContentTypes, h \in ReplyHeaders, t \in ReplyTexts }

NetworkErrors == {"ReadTimeout", "ConnectError"}

\* the smaller universe of the concurrent specification
ConcInbounds ==
    { [headers |-> << >>, body |-> <<T_req>>],
      [headers |-> << <<"mcp-session-id", "xyz789">> >>, body |-> <<T_init>>],
      [headers |-> << <<"MCP-Session-Id", "abc123">>,
                      <<"centian-url", "http://alt.example/mcp">> >>,
       body |-> <<T_req>>],
      [headers |-> << >>, body |-> <<T_bad>>] }

ConcReplies ==
    { UpstreamResponse(200, <<"application/json">>,
                       << <<"mcp-session-id", "up-1">> >>, <<T_ok>>),
      UpstreamResponse(200, <<"text/event-stream">>,
                       << <<"Mcp-Session-Id", "up-2">> >>,
                       <<DATA, T_later, NL, NL>>),
      UpstreamResponse(503, <<"text/plain">>, << >>, <<T_bad>>) }

----------------------------------------------------------------------------
(* Processor scripts: main() of passthrough, request_logger,               *)
(* security_validator and payload_transformer                              *)

Scripts == {"passthrough", "request_logger", "security_validator", "payload_transformer"}

E_list == "{\"type\":\"request\",\"payload\":{\"method\":\"tools/list\"}}"

E_delete == "{\"type\":\"request\",\"payload\":{\"method\":\"resources/Delete\"}}"

E_params == "{\"type\":\"request\",\"payload\":{\"method\":\"tools/call\",\"params\":{}}}"

E_params_list == "{\"type\":\"request\",\"payload\":{\"method\":\"tools/call\",\"params\":[]}}"

E_method_num == "{\"type\":\"request\",\"payload\":{\"method\":5}}"

E_payload_str == "{\"type\":\"response\",\"payload\":\"text\"}"

E_no_payload == "{\"type\":\"request\"}"

E_no_type == "{\"payload\":{\"method\":\"tools/list\"}}"

E_array == "[]"

E_garbage == "not json"

StdinTexts ==
    { <<E_list>>, <<E_delete>>, <<E_params>>, <<E_params_list>>, <<E_method_num>>,
      <<E_payload_str>>, <<E_no_payload>>, <<E_no_type>>, <<E_array>>,
      <<E_garbage>>, << >> }

\* a payload: its Python type, its "method" member and its "params" member
Payload(kind, method, params) == [kind |-> kind, method |-> method, params |-> params]

NoPayload == Payload("absent", None, "absent")

EmptyPayload == Payload("dict", None, "absent")

\* an event: its Python type, its "type" member and its "payload" member
Event(shape, type, payload) == [shape |-> shape, type |-> type, payload |-> payload]

EventDocument(tok) ==
    CASE tok = E_list ->
           Ok(Event("dict", "request", Payload("dict", "tools/list", "absent")))
      [] tok = E_delete ->
           Ok(Event("dict", "request", Payload("dict", "resources/Delete", "absent")))
      [] tok = E_params ->
           Ok(Event("dict", "request", Payload("dict", "tools/call", "dict")))
      [] tok = E_params_list ->
           Ok(Event("dict", "request", Payload("dict", "tools/call", "list")))
      [] tok = E_method_num ->
           Ok(Event("dict", "request", Payload("dict", "<int>", "absent")))
      [] tok = E_payload_str ->
           Ok(Event("dict", "response", Payload("str", None, "absent")))
      [] tok = E_no_payload -> Ok(Event("dict", "request", NoPayload))
      [] tok = E_no_type ->
           Ok(Event("dict", None, Payload("dict", "tools/list", "absent")))
      [] tok = E_array -> Ok(Event("list", None, NoPayload))
      [] OTHER -> Raised("JSONDecodeError")

\* json.load(sys.stdin)
EventLoad(text) ==
    LET t == Strip(text)
    IN IF Len(t) = 1 THEN EventDocument(t[1]) ELSE Raised("JSONDecodeError")

\* "delete" in method.lower(), on the methods of the universe
MentionsDelete(method) == method = "resources/Delete"

Result(status, payload, error, name) ==
    [status |-> status, payload |-> payload, error |-> error, processor_name |-> name]

\* payload = event["payload"], the first line of every process()
EventPayload(event) ==
    IF event.shape # "dict" THEN Raised("TypeError")
    ELSE IF event.payload.kind = "absent" THEN Raised("KeyError")
    ELSE Ok(event.payload)

\* passthrough.py lines 11-43
ProcessPassthrough(event) ==
    IF ~EventPayload(event).ok THEN EventPayload(event)
    ELSE Ok(Result(200, event.payload, None, "passthrough"))

\* request_logger.py lines 11-43: the log entry is appended to a file first
ProcessLogger(event, fs_ok) ==
    IF ~EventPayload(event).ok THEN EventPayload(event)
    ELSE IF event.type = None THEN Raised("KeyError")
    ELSE IF event.payload.kind # "dict" THEN Raised("AttributeError")
    ELSE IF ~fs_ok THEN Raised("OSError")
    ELSE Ok(Result(200, event.payload, None, "request_logger"))

\* security_validator.py lines 11-50
ProcessValidator(event) ==
    IF ~EventPayload(event).ok THEN EventPayload(event)
    ELSE IF event.payload.kind # "dict" THEN Raised("AttributeError")
    ELSE IF event.payload.method = "<int>" THEN Raised("AttributeError")
    ELSE IF event.payload.method # None /\ MentionsDelete(event.payload.method)
    THEN Ok(Result(403, EmptyPayload, "Delete operations not allowed",
                   "security_validator"))
    ELSE Ok(Result(200, event.payload, None, "security_validator"))

\* payload_transformer.py lines 11-50
ProcessTransformer(event) ==
    IF ~EventPayload(event).ok THEN EventPayload(event)
    ELSE IF event.payload.params = "absent"
    THEN Ok(Result(200, event.payload, None, "payload_transformer"))
    ELSE IF event.payload.params = "list" THEN Raised("TypeError")
    ELSE Ok(Result(200, [event.payload EXCEPT !.params = "dict+x-processor"],
                   None, "payload_transformer"))

Process(script, event, fs_ok) ==
    CASE script = "passthrough" -> ProcessPassthrough(event)
      [] script = "request_logger" -> ProcessLogger(event, fs_ok)
      [] script = "security_validator" -> ProcessValidator(event)
      [] OTHER -> ProcessTransformer(event)

\* the result main() builds in its except branch
ErrorResult(script, e) == Result(500, EmptyPayload, e, script)

\* a handler that catches BaseException
CatchesBaseException(exc) == TRUE

\* except Exception: SystemExit, raised by sys.exit, is no Exception
Catches(exc) == exc # "SystemExit"

\* no exit status yet
Running == -1

ProcIdle ==
    [pos |-> "idle", script |-> "none", stdin |-> << >>, fs_ok |-> TRUE,
     event |-> Event("none", None, NoPayload),
     result |-> ErrorResult("none", None), exc |-> "none",
     stdout |-> << >>, exit_code |-> Running]

\* a script is started on some standard input
ProcStart ==
    /\ proc.pos = "idle"
    /\ \E s \in Scripts, text \in StdinTexts, ok \in BOOLEAN :
         proc' = [proc EXCEPT !.pos = "start", !.script = s, !.stdin = text,
                              !.fs_ok = ok]
    /\ UNCHANGED proxyVars

\* event = json.load(sys.stdin)
ProcLoad ==
    /\ proc.pos = "start"
    /\ LET loaded == EventLoad(proc.stdin)
       IN proc' = IF loaded.ok
                  THEN [proc EXCEPT !.pos = "loaded", !.event = loaded.value]
                  ELSE [proc EXCEPT !.pos = "except", !.exc = loaded.exc]
    /\ UNCHANGED proxyVars

\* result = process(event)
ProcProcess ==
    /\ proc.pos = "loaded"
    /\ LET done == Process(proc.script, proc.event, proc.fs_ok)
       IN proc' = IF done.ok
                  THEN [proc EXCEPT !.pos = "processed", !.result = done.value]
                  ELSE [proc EXCEPT !.pos = "except", !.exc = done.exc]
    /\ UNCHANGED proxyVars

\* print(json.dumps(result)) in the try block
ProcPrint ==
    /\ proc.pos = "processed"
    /\ proc' = [proc EXCEPT !.pos = "printed", !.stdout = Append(@, proc.result)]
    /\ UNCHANGED proxyVars

\* sys.exit(0) in the try block: raises SystemExit past the except clause
ProcExit ==
    /\ proc.pos = "printed"
    /\ proc' = IF Catches("SystemExit")
               THEN [proc EXCEPT !.pos = "except", !.exc = "SystemExit"]
               ELSE [proc EXCEPT !.pos = "exited", !.exit_code = 0]
    /\ UNCHANGED proxyVars

\* the except branch: the status-500 result is printed
ProcPrintError ==
    /\ proc.pos = "except"
    /\ Catches(proc.exc)
    /\ proc' = [proc EXCEPT !.pos = "except_printed",
                            !.stdout = Append(@, ErrorResult(proc.script, proc.exc))]
    /\ UNCHANGED proxyVars

\* sys.exit(0) at the end of the except branch
ProcExitError ==
    /\ proc.pos = "except_printed"
    /\ proc' = [proc EXCEPT !.pos = "exited", !.exit_code = 0]
    /\ UNCHANGED proxyVars

----------------------------------------------------------------------------
(* Actions of the proxy *)

InitProxy(handlers) ==
    /\ pc = [r \in handlers |-> "idle"]
    /\ inbound = [r \in handlers |-> NoRequest]
    /\ request_url = [r \in handlers |-> None]
    /\ upstream_calls = [r \in handlers |-> << >>]
    /\ upstream_reply = [r \in handlers |-> NoReply]
    /\ responses = [r \in handlers |-> << >>]
    /\ http_client = HttpClient

\* a POST / arrives and proxy_mcp_request starts: line 56, then the await of
\* the body at line 59
Receive(r, requests) ==
    /\ pc[r] = "idle"
    /\ \E req \in requests : inbound' = [inbound EXCEPT ![r] = req]
    /\ pc' = [pc EXCEPT ![r] = "reading"]
    /\ UNCHANGED <<request_url, upstream_calls, upstream_reply, responses,
                   http_client, proc>>

\* lines 59-87: the body is decoded, the call is built and sent; a body that
\* is no JSON, or no mapping (line 60), ends in the handler of line 157
ReadBody(r) ==
    /\ pc[r] = "reading"
    /\ LET request_data == RequestJson(inbound[r].body)
           headers == RequestHeaders(inbound[r].headers)
           url == TargetURL(headers)
           proxy_headers == ProxyHeaders(StripOverride(headers))
       IN IF ~request_data.ok
          THEN /\ responses' = [responses EXCEPT
                                  ![r] = Append(@, InternalError(request_data.exc))]
               /\ pc' = [pc EXCEPT ![r] = "done"]
               /\ UNCHANGED <<request_url, upstream_calls, http_client>>
          ELSE IF request_data.value.type # "dict"
          THEN /\ responses' = [responses EXCEPT
                                  ![r] = Append(@, InternalError("AttributeError"))]
               /\ pc' = [pc EXCEPT ![r] = "done"]
               /\ UNCHANGED <<request_url, upstream_calls, http_client>>
          ELSE /\ request_url' = [request_url EXCEPT ![r] = url]
               /\ upstream_calls' =
                    [upstream_calls EXCEPT
                       ![r] = Append(@, PostCall(http_client, url,
                                                 request_data.value, proxy_headers))]
               /\ http_client' = ClientAfterPost(http_client, proxy_headers)
               /\ pc' = [pc EXCEPT ![r] = "posting"]
               /\ UNCHANGED responses
    /\ UNCHANGED <<inbound, upstream_reply, proc>>

\* lines 88-151: the upstream answered
UpstreamReplies(r, replies) ==
    /\ pc[r] = "posting"
    /\ \E rep \in replies :
         /\ upstream_reply' = [upstream_reply EXCEPT ![r] = rep]
         /\ responses' = [responses EXCEPT ![r] = Append(@, ReplyResponse(rep))]
    /\ pc' = [pc EXCEPT ![r] = "done"]
    /\ UNCHANGED <<inbound, request_url, upstream_calls, http_client, proc>>

\* a handler that goes back to send the call again
RetryAfterTransportError == "reading"

\* lines 153-156: the handler raises HTTPException and is over; no second attempt
AfterTransportError == "done"

\* lines 83-87, 153-156: the call raised a transport error
UpstreamFails(r) ==
    /\ pc[r] = "posting"
    /\ \E e \in NetworkErrors :
         /\ upstream_reply' = [upstream_reply EXCEPT ![r] = NetworkFailure(e)]
         /\ responses' = [responses EXCEPT ![r] = Append(@, ForwardingError(e))]
    /\ pc' = [pc EXCEPT ![r] = AfterTransportError]
    /\ UNCHANGED <<inbound, request_url, upstream_calls, http_client, proc>>

\* the handler of Spec, and the handlers of SpecConc
Solo == {1}

Concurrent == 1..NumConcurrent

Init == InitProxy(Solo) /\ proc = ProcIdle

Next ==
    \/ \E r \in Solo : Receive(r, Inbounds)
    \/ \E r \in Solo : ReadBody(r)
    \/ \E r \in Solo : UpstreamReplies(r, Replies)
    \/ \E r \in Solo : UpstreamFails(r)

Spec == Init /\ [][Next]_vars

InitConc == InitProxy(Concurrent) /\ proc = ProcIdle

NextConc ==
    \/ \E r \in Concurrent : Receive(r, ConcInbounds)
    \/ \E r \in Concurrent : ReadBody(r)
    \/ \E r \in Concurrent : UpstreamReplies(r, ConcReplies)
    \/ \E r \in Concurrent : UpstreamFails(r)

SpecConc == InitConc /\ [][NextConc]_vars

InitProc == InitProxy({}) /\ proc = ProcIdle

NextProc ==
    \/ ProcStart
    \/ ProcLoad
    \/ ProcProcess
    \/ ProcPrint
    \/ ProcExit
    \/ ProcPrintError
    \/ ProcExitError

SpecProc == InitProc /\ [][NextProc]_vars

----------------------------------------------------------------------------
(* Vocabulary of the properties *)

Handlers == DOMAIN pc

IsDone(r) == pc[r] = "done"

\* the response the caller of request r received
Resp(r) == responses[r][1]

\* the upstream answered request r with a 2xx response
Succeeded(r) ==
    /\ upstream_reply[r].kind = "response"
    /\ upstream_reply[r].status \in 200..299

\* the values the inbound request carries in a field of that name, any spelling
FieldValues(req, name) ==
    { req.headers[i][2] : i \in { j \in DOMAIN req.headers :
                                    Lower(req.headers[j][1]) = name } }

\* the session ids of the inbound request: the non-empty session-id values
SessionIds(req) == FieldValues(req, "mcp-session-id") \ {""}

\* the session ids of an upstream response
ReplySessionIds(rep) ==
    { rep.headers[i][2] : i \in { j \in DOMAIN rep.headers :
                                    Lower(rep.headers[j][1]) = "mcp-session-id" } }

\* the lines of an event-stream body, and the data lines among them
BodyLines(rep) == Split(Strip(rep.text))

DataLines(rep) == { i \in DOMAIN BodyLines(rep) : StartsWithData(BodyLines(rep)[i]) }

Least(S) == CHOOSE i \in S : \A j \in S : i <= j

FirstDataText(rep) == Tail(BodyLines(rep)[Least(DataLines(rep))])

IsForwardingError(resp) ==
    /\ resp.status = 500
    /\ resp.content = PyDict(<< <<"detail", "Error forwarding request">> >>)

IsInternalError(resp) ==
    /\ resp.status = 500
    /\ resp.content = PyDict(<< <<"detail", "Internal server error">> >>)

----------------------------------------------------------------------------
(* Properties of the proxy *)

\* C1: for every POST / whose body is valid JSON, on every path of the handler
\* at most one upstream POST is made and the caller receives exactly one
\* response (none while the handler is still running).
C1_OneCallOneResponse ==
    \A r \in Handlers :
        JsonLoads(inbound[r].body).ok =>
            /\ Len(upstream_calls[r]) <= 1
            /\ (IsDone(r) => Len(responses[r]) = 1)
            /\ (~IsDone(r) => Len(responses[r]) = 0)

\* C1 witness: a valid request whose single upstream call failed at network
\* level has been answered
C1_Witness ==
    \E r \in Handlers :
        /\ IsDone(r)
        /\ JsonLoads(inbound[r].body).ok
        /\ Len(upstream_calls[r]) = 1
        /\ upstream_reply[r].kind = "ReadTimeout"
        /\ Len(responses[r]) = 1

\* C2: a POST / whose body is not valid JSON makes no upstream call, builds no
\* target or outbound headers, and is answered with status 500 and a message
\* that describes the fault.
C2_MalformedBodyFailsFast ==
    \A r \in Handlers :
        (pc[r] # "idle" /\ ~JsonLoads(inbound[r].body).ok) =>
            /\ Len(upstream_calls[r]) = 0
            /\ request_url[r] = None
            /\ pc[r] # "posting"
            /\ IsDone(r) => /\ Len(responses[r]) = 1
                            /\ IsInternalError(Resp(r))
                            /\ Resp(r).fault = "JSONDecodeError"

\* C2 witness: a request with an undecodable body has been answered
C2_Witness ==
    \E r \in Handlers :
        /\ IsDone(r)
        /\ inbound[r].body = <<T_bad>>
        /\ Resp(r).status = 500

\* C3: a network-level failure of the upstream call, or an upstream response
\* with any non-2xx status and any body, is answered with status 500 and the
\* forwarding-error classification.
C3_UpstreamFailureIsForwardingError ==
    \A r \in Handlers :
        (IsDone(r) /\ upstream_reply[r].kind # "none" /\ ~Succeeded(r)) =>
            IsForwardingError(Resp(r))

C5_SessionIdEchoed ==
    \A r \in Handlers :
        (IsDone(r) /\ Succeeded(r) /\ ReplySessionIds(upstream_reply[r]) # {}) =>
            /\ "mcp-session-id" \in DOMAIN Resp(r).headers
            /\ Resp(r).headers["mcp-session-id"] \in ReplySessionIds(upstream_reply[r])

\* C6: a 2xx upstream response whose content type declares application/json,
\* with or without parameters, and whose body is valid JSON is answered with
\* the decoded body and the upstream status.
C6_JsonPassThrough ==
    \A r \in Handlers :
        LET rep == upstream_reply[r]
        IN (/\ IsDone(r) /\ Succeeded(r)
            /\ rep.content_type # << >>
            /\ Head(rep.content_type) = "application/json"
            /\ JsonLoads(rep.text).ok) =>
               /\ Resp(r).content = JsonLoads(rep.text).value
               /\ Resp(r).status = rep.status

\* C7: a 2xx event-stream response whose first data line holds text that
\* decodes as JSON is answered with that value, whatever value it is, and the
\* upstream status.
C7_FirstDataLineDecoded ==
    \A r \in Handlers :
        LET rep == upstream_reply[r]
        IN (/\ IsDone(r) /\ Succeeded(r)
            /\ IsEventStream(rep.content_type)
            /\ DataLines(rep) # {}
            /\ JsonLoads(FirstDataText(rep)).ok) =>
               /\ Resp(r).content = JsonLoads(FirstDataText(rep)).value
               /\ Resp(r).status = rep.status

\* the body of an event-stream response cut after its first data line
UpToFirstData(rep) ==
    [rep EXCEPT !.text = BodyLines(rep)[Least(DataLines(rep))]]

Decodes(line) == PyEval(Tail(line)).ok \/ JsonLoads(Tail(line)).ok

Decoded(line) ==
    IF PyEval(Tail(line)).ok THEN PyEval(Tail(line)).value
    ELSE JsonLoads(Tail(line)).value

DecodableLines(rep) == { i \in DataLines(rep) : Decodes(BodyLines(rep)[i]) }

OwnPayloads(rep) ==
    { JsonLoads(rep.text).value }
    \cup { Decoded(BodyLines(rep)[i]) : i \in DecodableLines(rep) }
    \cup { PyDict(<< >>),
           PyDict(<< <<"detail", "Error forwarding request">> >>),
           PyDict(<< <<"detail", "Internal server error">> >>),
           PyDict(<< <<"error", "Failed to parse streaming response">> >>) }

----------------------------------------------------------------------------
(* Properties of the processor scripts *)

\* C10: whatever the standard input, main() of every processor script writes
\* exactly one result to standard output and then exits with status 0, also
\* when the result reports 403 or 500; never two results, never a nonzero exit.
C10_OneResultExitZero ==
    /\ Len(proc.stdout) <= 1
    /\ proc.exit_code \in {Running, 0}
    /\ proc.pos = "exited" => (Len(proc.stdout) = 1 /\ proc.exit_code = 0)
    /\ proc.pos \in {"printed", "except_printed"} => Len(proc.stdout) = 1

\* C10 witness: the validator refused a delete request, reported 403 and
\* exited with status 0
C10_Witness ==
    /\ proc.pos = "exited"
    /\ proc.script = "security_validator"
    /\ Len(proc.stdout) = 1
    /\ proc.stdout[1].status = 403
    /\ proc.exit_code = 0

====
